---- MODULE Spec2Model ----
(***************************************************************************)
(* spacefn-rs: the space-as-layer-key remapper.  The session loop of       *)
(* main.rs (run_state_machine and its three state handlers), the mapped    *)
(* emission helper, and the KeyBuffer / StateMachine types of core.rs.     *)
(*                                                                         *)
(* The device is read one event at a time: a step of the model is one      *)
(* event taken from device.fetch_events() and carried through the body of  *)
(* the handler's for-loop (or, in Decide, one pass of the deadline check). *)
(* The device is a keyboard: a key that is up can only be pressed, a key   *)
(* that is down can only repeat or be released.  Keys may already be down  *)
(* when the session grabs the device.                                      *)
(***************************************************************************)
EXTENDS Integers, Sequences, FiniteSets, TLC

(***************************************************************************)
(* Program constants.                                                      *)
(***************************************************************************)
KEY_SPACE == 57
DECIDE_TIMEOUT_MS == 200
MAX_BUFFER == 8
U16 == 65536

(* KeyValue: the discriminants of the enum. *)
Release == 0
Press == 1
Repeat == 2

(***************************************************************************)
(* Bounds of the model.                                                    *)
(***************************************************************************)
(* Milliseconds that pass between two readings of the Decide clock. *)
TickMs == 100
(* KeyBuffer codes are drawn from 1..KBCodes; operations per run. *)
KBCodes == 9
MaxKBOps == 3
(* Events of one logged stay in Idle. *)
MaxLog == 4
(* Rules of a keys_map handed to the mapped-emission helper alone. *)
MaxRules == 2
SatCodes == 9
MaxCmds == 2

(***************************************************************************)
(* Inputs.                                                                 *)
(***************************************************************************)
(* Physical keys of the grabbed keyboard: the modifier, A, S. *)
Keys == {KEY_SPACE, 30, 31}

(* Mapping rules [original, replacement-or-0, extended-or-0] (u32 each). *)
RuleRemap == <<30, 105, 0>>
RuleBoth == <<30, 105, 109>>
RuleExtOnly == <<31, 0, 110>>

Rules == {RuleRemap, RuleBoth, RuleExtOnly}

(* The keys_map lists a session can be started with. *)
Configs == { <<>>, <<RuleRemap>>, <<RuleBoth, RuleExtOnly>> }

KeyEvent(code, value) == [type |-> "KEY", code |-> code, value |-> value]

(* Events of another type than EV_KEY: a report separator and a scancode. *)
NonKeyEvents == { [type |-> "SYN", code |-> 0, value |-> 0],
                  [type |-> "MSC", code |-> 4, value |-> 30] }

(***************************************************************************)
(* core.rs                                                                 *)
(***************************************************************************)
(* impl From<i32> for KeyValue *)
KeyValueFrom(v) ==
    CASE v = 0 -> Release
      [] v = 1 -> Press
      [] v = 2 -> Repeat
      [] OTHER -> Release


(* The index of the last rule whose original field is the code.  *)
FirstMatch_Last(keys_map, original) ==
    LET hits == { i \in 1..Len(keys_map) : keys_map[i][1] = original }
    IN  IF hits = {} THEN 0
        ELSE CHOOSE i \in hits : \A j \in hits : i >= j

(* The index of the first rule whose original field is the code, 0 if none. *)
FirstMatch(keys_map, original) ==
    LET hits == { i \in 1..Len(keys_map) : keys_map[i][1] = original }
    IN  IF hits = {} THEN 0
        ELSE CHOOSE i \in hits : \A j \in hits : i <= j

(* StateMachine::map_key: (mapped, extended), `as u16` truncating; the     *)
(* Option is a sequence of length 0 (None) or 1 (Some).                    *)
map_key(keys_map, original) ==
    LET i == FirstMatch(keys_map, original)
    IN  IF i = 0 THEN [mapped |-> original, ext |-> <<>>]
        ELSE [mapped |-> IF keys_map[i][2] # 0 THEN keys_map[i][2] % U16
                         ELSE original,
              ext |-> IF keys_map[i][3] # 0 THEN <<keys_map[i][3] % U16>>
                      ELSE <<>>]

(* send_key: the one event written to the virtual device. *)
send_key(code, value) == <<KeyEvent(code, value)>>


(* forward_event rebuilding the event as a key event, as send_key does. *)
forward_event_AsKey(event) == <<KeyEvent(event.code, event.value)>>

(* forward_event: the event itself. *)
forward_event(event) == <<event>>


(* KeyBuffer::append without the test for a code already held. *)
KeyBuffer_append_NoDupCheck(buf, code) ==
    IF Len(buf) >= MAX_BUFFER THEN [buffer |-> buf, ret |-> FALSE]
    ELSE [buffer |-> Append(buf, code), ret |-> TRUE]

(* KeyBuffer::append with the capacity test off by one (> for >=). *)
KeyBuffer_append_OffByOne(buf, code) ==
    IF Len(buf) > MAX_BUFFER THEN [buffer |-> buf, ret |-> FALSE]
    ELSE IF \E i \in 1..Len(buf) : buf[i] = code
         THEN [buffer |-> buf, ret |-> FALSE]
         ELSE [buffer |-> Append(buf, code), ret |-> TRUE]

(* KeyBuffer::append: the buffer afterwards and the returned flag. *)
KeyBuffer_append(buf, code) ==
    IF Len(buf) >= MAX_BUFFER THEN [buffer |-> buf, ret |-> FALSE]
    ELSE IF \E i \in 1..Len(buf) : buf[i] = code
         THEN [buffer |-> buf, ret |-> FALSE]
         ELSE [buffer |-> Append(buf, code), ret |-> TRUE]


(* KeyBuffer::remove done as Vec::swap_remove: the last code takes the     *)
(* place of the removed one.                                               *)
KeyBuffer_remove_Swap(buf, code) ==
    IF \E i \in 1..Len(buf) : buf[i] = code
    THEN LET pos == CHOOSE i \in 1..Len(buf) :
                        buf[i] = code /\ \A j \in 1..(i - 1) : buf[j] # code
             n == Len(buf)
         IN  [buffer |-> [i \in 1..(n - 1) |->
                             IF i = pos THEN buf[n] ELSE buf[i]],
              ret |-> TRUE]
    ELSE [buffer |-> buf, ret |-> FALSE]

(* KeyBuffer::remove *)
KeyBuffer_remove(buf, code) ==
    IF \E i \in 1..Len(buf) : buf[i] = code
    THEN LET pos == CHOOSE i \in 1..Len(buf) :
                        buf[i] = code /\ \A j \in 1..(i - 1) : buf[j] # code
         IN  [buffer |-> SubSeq(buf, 1, pos - 1)
                         \o SubSeq(buf, pos + 1, Len(buf)),
              ret |-> TRUE]
    ELSE [buffer |-> buf, ret |-> FALSE]


(* KeyBuffer::clear done as Vec::truncate(1): the first code stays. *)
KeyBuffer_clear_KeepFirst(buf) ==
    IF buf = <<>> THEN buf ELSE SubSeq(buf, 1, 1)

(* KeyBuffer::clear *)
KeyBuffer_clear(buf) == <<>>


(* StateMachine::set_state clearing the buffer whatever the state is. *)
StateMachine_set_state_ClearAlways(sm_state, sm_buffer, s) ==
    [state |-> s, buffer |-> KeyBuffer_clear(sm_buffer)]

(* StateMachine::set_state: the machine's state and buffer afterwards. *)
StateMachine_set_state(sm_state, sm_buffer, s) ==
    [state |-> s,
     buffer |-> IF s = "Decide" THEN KeyBuffer_clear(sm_buffer)
                ELSE sm_buffer]

(* KeyBuffer::iter: the codes in the order the Vec holds them. *)
KeyBuffer_iter(buf) == buf

(***************************************************************************)
(* main.rs: the mapped-emission helper                                     *)
(***************************************************************************)
(* send_mapped_key writing the extended code after the effective code. *)
send_mapped_key_ExtLast(code, value, keys_map) ==
    LET m == map_key(keys_map, code)
        actual_code == IF m.mapped # 0 THEN m.mapped ELSE code
    IN  [out |-> send_key(actual_code, value)
                 \o (IF m.ext # <<>> THEN send_key(m.ext[1], value) ELSE <<>>),
         ret |-> (m.mapped # 0 /\ m.mapped # code)]

(* send_mapped_key: the events written, and the returned flag. *)
send_mapped_key(code, value, keys_map) ==
    LET m == map_key(keys_map, code)
        actual_code == IF m.mapped # 0 THEN m.mapped ELSE code
    IN  [out |-> (IF m.ext # <<>> THEN send_key(m.ext[1], value) ELSE <<>>)
                 \o send_key(actual_code, value),
         ret |-> (m.mapped # 0 /\ m.mapped # code)]

(* The code send_mapped_key writes last: the effective code of a key. *)
Effective(code, keys_map) ==
    LET m == map_key(keys_map, code)
    IN  IF m.mapped # 0 THEN m.mapped ELSE code

RECURSIVE MappedAll_Unmapped(_, _, _)
(* The loop over the buffer writing the original codes, not the mapped. *)
MappedAll_Unmapped(buf, value, keys_map) ==
    IF buf = <<>> THEN <<>>
    ELSE send_key(Head(buf), value)
         \o MappedAll_Unmapped(Tail(buf), value, keys_map)

RECURSIVE MappedAll(_, _, _)
(* for &code in buffer.iter() { send_mapped_key(uinput, code, value, config) } *)
MappedAll(buf, value, keys_map) ==
    IF buf = <<>> THEN <<>>
    ELSE send_mapped_key(Head(buf), value, keys_map).out
         \o MappedAll(Tail(buf), value, keys_map)

RECURSIVE PlainAll_Reversed(_, _)
(* The flush of the buffer going backwards (buffer.iter().rev()). *)
PlainAll_Reversed(buf, value) ==
    IF buf = <<>> THEN <<>>
    ELSE PlainAll_Reversed(Tail(buf), value) \o send_key(Head(buf), value)

RECURSIVE PlainAll(_, _)
(* for &code in buffer.iter() { send_key(uinput, code, 1) } *)
PlainAll(buf, value) ==
    IF buf = <<>> THEN <<>>
    ELSE send_key(Head(buf), value) \o PlainAll(Tail(buf), value)

(* Vec::contains *)
Contains(buf, code) == \E i \in 1..Len(buf) : buf[i] = code

(* Removing the last element (buffer.pop()) instead of the code's. *)
RemoveCode_Pop(buf, code) ==
    IF buf = <<>> THEN buf ELSE SubSeq(buf, 1, Len(buf) - 1)

(* buffer.iter().position(..) then buffer.remove(pos): first occurrence out. *)
RemoveCode(buf, code) ==
    IF ~Contains(buf, code) THEN buf
    ELSE LET pos == CHOOSE i \in 1..Len(buf) :
                        buf[i] = code /\ \A j \in 1..(i - 1) : buf[j] # code
         IN  SubSeq(buf, 1, pos - 1) \o SubSeq(buf, pos + 1, Len(buf))

(* if !buffer.contains(&code) { buffer.push(code) } *)
PushNew(buf, code) == IF Contains(buf, code) THEN buf ELSE Append(buf, code)

(***************************************************************************)
(* main.rs: the state handlers, one event at a time.  Each gives the       *)
(* events written to the virtual device, the buffer afterwards, and the    *)
(* state returned ("" while the handler keeps looping).                    *)
(***************************************************************************)
(* run_idle_state leaving Idle on any event of the modifier code. *)
run_idle_state_AnySpace(event) ==
    IF event.type # "KEY"
    THEN [out |-> forward_event(event), ret |-> ""]
    ELSE IF event.code = KEY_SPACE
         THEN [out |-> <<>>, ret |-> "Decide"]
         ELSE [out |-> send_key(event.code, event.value), ret |-> ""]

(* run_idle_state writing the converted KeyValue, Repeat read as Press. *)
run_idle_state_RepeatAsPress(event) ==
    IF event.type # "KEY"
    THEN [out |-> forward_event(event), ret |-> ""]
    ELSE IF event.code = KEY_SPACE /\ KeyValueFrom(event.value) = Press
         THEN [out |-> <<>>, ret |-> "Decide"]
         ELSE [out |-> send_key(event.code,
                                IF event.value = Repeat THEN Press
                                ELSE event.value),
               ret |-> ""]

(* run_idle_state, the body of its for-loop. *)
run_idle_state(event) ==
    IF event.type # "KEY"
    THEN [out |-> forward_event(event), ret |-> ""]
    ELSE IF event.code = KEY_SPACE /\ KeyValueFrom(event.value) = Press
         THEN [out |-> <<>>, ret |-> "Decide"]
         ELSE [out |-> send_key(event.code, event.value), ret |-> ""]

(* run_decide_state, the deadline branch: elapsed >= timeout. *)
decide_timeout(buf, keys_map) ==
    [out |-> MappedAll(buf, Press, keys_map), buffer |-> buf, ret |-> "Shift"]


(* run_decide_state resolving the Release of an unbuffered code through    *)
(* the mapping table.                                                      *)
run_decide_state_MapsRelease(event, buf, keys_map) ==
    LET code == event.code
        value == KeyValueFrom(event.value)
    IN  IF event.type # "KEY"
        THEN [out |-> forward_event(event), buffer |-> buf, ret |-> ""]
        ELSE IF code = KEY_SPACE /\ value = Release
        THEN [out |-> send_key(KEY_SPACE, 1) \o send_key(KEY_SPACE, 0)
                      \o PlainAll(buf, 1),
              buffer |-> buf, ret |-> "Idle"]
        ELSE IF value = Press
        THEN [out |-> <<>>, buffer |-> PushNew(buf, code), ret |-> ""]
        ELSE IF value = Release /\ ~Contains(buf, code)
        THEN [out |-> send_mapped_key(code, Release, keys_map).out,
              buffer |-> buf, ret |-> ""]
        ELSE IF value = Release /\ Contains(buf, code)
        THEN [out |-> send_mapped_key(code, Press, keys_map).out
                      \o send_mapped_key(code, Release, keys_map).out,
              buffer |-> RemoveCode(buf, code), ret |-> "Shift"]
        ELSE [out |-> <<>>, buffer |-> buf, ret |-> ""]


(* run_decide_state writing a Press as it buffers it. *)
run_decide_state_PressEmits(event, buf, keys_map) ==
    LET code == event.code
        value == KeyValueFrom(event.value)
    IN  IF event.type # "KEY"
        THEN [out |-> forward_event(event), buffer |-> buf, ret |-> ""]
        ELSE IF code = KEY_SPACE /\ value = Release
        THEN [out |-> send_key(KEY_SPACE, 1) \o send_key(KEY_SPACE, 0)
                      \o PlainAll(buf, 1),
              buffer |-> buf, ret |-> "Idle"]
        ELSE IF value = Press
        THEN [out |-> send_key(code, event.value),
              buffer |-> PushNew(buf, code), ret |-> ""]
        ELSE IF value = Release /\ ~Contains(buf, code)
        THEN [out |-> send_key(code, event.value), buffer |-> buf, ret |-> ""]
        ELSE IF value = Release /\ Contains(buf, code)
        THEN [out |-> send_mapped_key(code, Press, keys_map).out
                      \o send_mapped_key(code, Release, keys_map).out,
              buffer |-> RemoveCode(buf, code), ret |-> "Shift"]
        ELSE [out |-> <<>>, buffer |-> buf, ret |-> ""]

(* run_decide_state emptying the buffer on the tap outcome. *)
run_decide_state_TapClears(event, buf, keys_map) ==
    LET code == event.code
        value == KeyValueFrom(event.value)
    IN  IF event.type # "KEY"
        THEN [out |-> forward_event(event), buffer |-> buf, ret |-> ""]
        ELSE IF code = KEY_SPACE /\ value = Release
        THEN [out |-> send_key(KEY_SPACE, 1) \o send_key(KEY_SPACE, 0)
                      \o PlainAll(buf, 1),
              buffer |-> <<>>, ret |-> "Idle"]
        ELSE IF value = Press
        THEN [out |-> <<>>, buffer |-> PushNew(buf, code), ret |-> ""]
        ELSE IF value = Release /\ ~Contains(buf, code)
        THEN [out |-> send_key(code, event.value), buffer |-> buf, ret |-> ""]
        ELSE IF value = Release /\ Contains(buf, code)
        THEN [out |-> send_mapped_key(code, Press, keys_map).out
                      \o send_mapped_key(code, Release, keys_map).out,
              buffer |-> RemoveCode(buf, code), ret |-> "Shift"]
        ELSE [out |-> <<>>, buffer |-> buf, ret |-> ""]

(* run_decide_state writing a Repeat of the modifier through. *)
run_decide_state_RepeatPasses(event, buf, keys_map) ==
    LET code == event.code
        value == KeyValueFrom(event.value)
    IN  IF event.type # "KEY"
        THEN [out |-> forward_event(event), buffer |-> buf, ret |-> ""]
        ELSE IF code = KEY_SPACE /\ value = Release
        THEN [out |-> send_key(KEY_SPACE, 1) \o send_key(KEY_SPACE, 0)
                      \o PlainAll(buf, 1),
              buffer |-> buf, ret |-> "Idle"]
        ELSE IF value = Press
        THEN [out |-> <<>>, buffer |-> PushNew(buf, code), ret |-> ""]
        ELSE IF value = Release /\ ~Contains(buf, code)
        THEN [out |-> send_key(code, event.value), buffer |-> buf, ret |-> ""]
        ELSE IF value = Release /\ Contains(buf, code)
        THEN [out |-> send_mapped_key(code, Press, keys_map).out
                      \o send_mapped_key(code, Release, keys_map).out,
              buffer |-> RemoveCode(buf, code), ret |-> "Shift"]
        ELSE [out |-> send_key(code, event.value), buffer |-> buf, ret |-> ""]

(* run_decide_state, the body of its for-loop. *)
run_decide_state(event, buf, keys_map) ==
    LET code == event.code
        value == KeyValueFrom(event.value)
    IN  IF event.type # "KEY"
        THEN [out |-> forward_event(event), buffer |-> buf, ret |-> ""]
        ELSE IF code = KEY_SPACE /\ value = Release
        THEN [out |-> send_key(KEY_SPACE, 1) \o send_key(KEY_SPACE, 0)
                      \o PlainAll(buf, 1),
              buffer |-> buf, ret |-> "Idle"]
        ELSE IF value = Press
        THEN [out |-> <<>>, buffer |-> PushNew(buf, code), ret |-> ""]
        ELSE IF value = Release /\ ~Contains(buf, code)
        THEN [out |-> send_key(code, event.value), buffer |-> buf, ret |-> ""]
        ELSE IF value = Release /\ Contains(buf, code)
        THEN [out |-> send_mapped_key(code, Press, keys_map).out
                      \o send_mapped_key(code, Release, keys_map).out,
              buffer |-> RemoveCode(buf, code), ret |-> "Shift"]
        ELSE [out |-> <<>>, buffer |-> buf, ret |-> ""]


(* run_shift_state returning to Idle on any event of the modifier. *)
run_shift_state_RepeatLeaves(event, buf, keys_map) ==
    LET code == event.code
        value == KeyValueFrom(event.value)
        sent == send_mapped_key(code, value, keys_map)
    IN  IF event.type # "KEY"
        THEN [out |-> forward_event(event), buffer |-> buf, ret |-> ""]
        ELSE IF code = KEY_SPACE
        THEN [out |-> MappedAll(buf, Release, keys_map),
              buffer |-> <<>>, ret |-> "Idle"]
        ELSE [out |-> sent.out,
              buffer |-> IF sent.ret /\ value = Press THEN PushNew(buf, code)
                         ELSE IF sent.ret /\ value = Release
                              THEN RemoveCode(buf, code)
                              ELSE buf,
              ret |-> ""]


(* run_shift_state writing a Repeat of the modifier through. *)
run_shift_state_RepeatPasses(event, buf, keys_map) ==
    LET code == event.code
        value == KeyValueFrom(event.value)
        sent == send_mapped_key(code, value, keys_map)
    IN  IF event.type # "KEY"
        THEN [out |-> forward_event(event), buffer |-> buf, ret |-> ""]
        ELSE IF code = KEY_SPACE /\ value = Release
        THEN [out |-> MappedAll(buf, Release, keys_map),
              buffer |-> <<>>, ret |-> "Idle"]
        ELSE IF code = KEY_SPACE /\ value = Repeat
        THEN [out |-> send_key(code, event.value), buffer |-> buf, ret |-> ""]
        ELSE IF code = KEY_SPACE
        THEN [out |-> <<>>, buffer |-> buf, ret |-> ""]
        ELSE [out |-> sent.out,
              buffer |-> IF sent.ret /\ value = Press THEN PushNew(buf, code)
                         ELSE IF sent.ret /\ value = Release
                              THEN RemoveCode(buf, code)
                              ELSE buf,
              ret |-> ""]


(* run_shift_state tracking every key, remapped or not. *)
run_shift_state_TracksAll(event, buf, keys_map) ==
    LET code == event.code
        value == KeyValueFrom(event.value)
        sent == send_mapped_key(code, value, keys_map)
    IN  IF event.type # "KEY"
        THEN [out |-> forward_event(event), buffer |-> buf, ret |-> ""]
        ELSE IF code = KEY_SPACE /\ value = Release
        THEN [out |-> MappedAll(buf, Release, keys_map),
              buffer |-> <<>>, ret |-> "Idle"]
        ELSE IF code = KEY_SPACE
        THEN [out |-> <<>>, buffer |-> buf, ret |-> ""]
        ELSE [out |-> sent.out,
              buffer |-> IF value = Press THEN PushNew(buf, code)
                         ELSE IF value = Release
                              THEN RemoveCode(buf, code)
                              ELSE buf,
              ret |-> ""]

(* run_shift_state without the buffer.clear() of the modifier Release. *)
run_shift_state_NoClear(event, buf, keys_map) ==
    LET code == event.code
        value == KeyValueFrom(event.value)
        sent == send_mapped_key(code, value, keys_map)
    IN  IF event.type # "KEY"
        THEN [out |-> forward_event(event), buffer |-> buf, ret |-> ""]
        ELSE IF code = KEY_SPACE /\ value = Release
        THEN [out |-> MappedAll(buf, Release, keys_map),
              buffer |-> buf, ret |-> "Idle"]
        ELSE IF code = KEY_SPACE
        THEN [out |-> <<>>, buffer |-> buf, ret |-> ""]
        ELSE [out |-> sent.out,
              buffer |-> IF sent.ret /\ value = Press THEN PushNew(buf, code)
                         ELSE IF sent.ret /\ value = Release
                              THEN RemoveCode(buf, code)
                              ELSE buf,
              ret |-> ""]

(* run_shift_state, the body of its for-loop. *)
run_shift_state(event, buf, keys_map) ==
    LET code == event.code
        value == KeyValueFrom(event.value)
        sent == send_mapped_key(code, value, keys_map)
    IN  IF event.type # "KEY"
        THEN [out |-> forward_event(event), buffer |-> buf, ret |-> ""]
        ELSE IF code = KEY_SPACE /\ value = Release
        THEN [out |-> MappedAll(buf, Release, keys_map),
              buffer |-> <<>>, ret |-> "Idle"]
        ELSE IF code = KEY_SPACE
        THEN [out |-> <<>>, buffer |-> buf, ret |-> ""]
        ELSE [out |-> sent.out,
              buffer |-> IF sent.ret /\ value = Press THEN PushNew(buf, code)
                         ELSE IF sent.ret /\ value = Release
                              THEN RemoveCode(buf, code)
                              ELSE buf,
              ret |-> ""]

(***************************************************************************)
(* The session: run_state_machine.                                         *)
(***************************************************************************)
VARIABLES
    state,           \* the State the loop dispatches on
    buffer,          \* run_state_machine's buffer: Vec<u16>
    current_config,  \* the keys_map of the live configuration
    pc,              \* "dispatch": between two handlers; "loop": inside one
    elapsed,         \* Decide: start.elapsed() as last read, in ms
    phys,            \* the keys that are physically down
    emitted,         \* what the last step wrote to the virtual device
    last,            \* the last step: its kind, state, buffer and event before
    sink,            \* per code, how its last emitted Press was answered
    decKeys,         \* the keys whose Press arrived in the current Decide
    bal,             \* per key of decKeys: Presses minus Releases emitted
                     \* for its effective code since that Press arrived
    idleIn,          \* a logged stay in Idle: the events read ...
    idleOut,         \* ... and the events written
    call,            \* one call of send_mapped_key and of map_key
    kb,              \* a KeyBuffer of core.rs: its Vec<u16>
    kbOps,           \* the operations done on kb
    kbLast,          \* the last operation on kb: name, code, result, before
    notes,           \* what the last step sent on state_tx
    shiftKeys,       \* the keys down whose Press was read in Shift and
                     \* resolved to their own code
    heldAs,          \* per key: the codes last written as Press for it and
                     \* the state that wrote them, until its Release is read
    cmds,            \* the commands sent on cmd_tx and not yet received
    drained,         \* the command drain of the last step: taken, config before
    disk,            \* the configuration file as Config::load would find it
    fail,            \* the error the session ended with, and where
    observer,        \* the receiver of state_tx: "up", or "gone" once dropped
    smState,         \* a StateMachine of core.rs: its state ...
    smBuffer,        \* ... and its KeyBuffer
    smLast,          \* the last operation on it: name, argument, buffer before
    keyboard         \* the key codes the grabbed device has

session == <<state, buffer, current_config, pc, elapsed, phys, emitted, last,
             sink, decKeys, bal, notes, shiftKeys, heldAs>>
idleLog == <<idleIn, idleOut>>
keyBuffer == <<kb, kbOps, kbLast>>
control == <<cmds, drained, disk, fail, observer>>
stateMachine == <<smState, smBuffer, smLast>>
vars == <<session, idleLog, call, keyBuffer, control, stateMachine, keyboard>>

(* UiMessage: the notifications of state_tx. *)
StateChanged(s) == [kind |-> "StateChanged", state |-> s, code |-> 0,
                    text |-> ""]
KeyPressed(code) == [kind |-> "KeyPressed", state |-> "", code |-> code,
                     text |-> ""]
ErrorMessage(text) == [kind |-> "Error", state |-> "", code |-> 0,
                       text |-> text]

(* What a handler sends on state_tx for one event: KeyPressed for a key    *)
(* event, then StateChanged when it returns the state `ret`.               *)
Notified(event, ret) ==
    (IF event.type = "KEY" THEN <<KeyPressed(event.code)>> ELSE <<>>)
    \o (IF ret # "" THEN <<StateChanged(ret)>> ELSE <<>>)

(* The configuration file: absent, unreadable or malformed, or holding a   *)
(* rule list.                                                              *)
NoFile == [file |-> "none", keys_map |-> <<>>]
BadFile == [file |-> "bad", keys_map |-> <<>>]
GoodFile(keys_map) == [file |-> "good", keys_map |-> keys_map]

(* Config::load: Ok(the file's configuration), Ok(Config::default()) when  *)
(* no file exists, Err when the file cannot be read or parsed.             *)
Config_load(d) ==
    CASE d.file = "none" -> [ok |-> TRUE, keys_map |-> <<>>]
      [] d.file = "bad" -> [ok |-> FALSE, keys_map |-> <<>>]
      [] OTHER -> [ok |-> TRUE, keys_map |-> d.keys_map]

RECURSIVE drain_PastStop(_, _, _)
(* The command drain going on past a Stop to the end of the queue. *)
drain_PastStop(queue, config, d) ==
    IF queue = <<>> THEN [config |-> config, stop |-> FALSE, rest |-> <<>>]
    ELSE IF Head(queue) = "Stop"
    THEN [drain_PastStop(Tail(queue), config, d) EXCEPT !.stop = TRUE]
    ELSE drain_PastStop(Tail(queue),
                        IF Config_load(d).ok THEN Config_load(d).keys_map
                        ELSE config,
                        d)

RECURSIVE drain_ErrDefaults(_, _, _)
(* The command drain falling back to Config::default() when the load of a  *)
(* ReloadConfig fails.                                                     *)
drain_ErrDefaults(queue, config, d) ==
    IF queue = <<>> THEN [config |-> config, stop |-> FALSE, rest |-> <<>>]
    ELSE IF Head(queue) = "Stop"
    THEN [config |-> config, stop |-> TRUE, rest |-> Tail(queue)]
    ELSE drain_ErrDefaults(Tail(queue),
                           IF Config_load(d).ok THEN Config_load(d).keys_map
                           ELSE <<>>,
                           d)

RECURSIVE drain(_, _, _)
(* while let Ok(cmd) = cmd_rx.try_recv(): the configuration afterwards,    *)
(* whether a Stop ended the session, and the commands left in the channel. *)
drain(queue, config, d) ==
    IF queue = <<>> THEN [config |-> config, stop |-> FALSE, rest |-> <<>>]
    ELSE IF Head(queue) = "Stop"
    THEN [config |-> config, stop |-> TRUE, rest |-> Tail(queue)]
    ELSE drain(Tail(queue),
               IF Config_load(d).ok THEN Config_load(d).keys_map ELSE config,
               d)

(* One event through the handler of state `st`. *)
run_handler(st, event, buf, keys_map) ==
    CASE st = "Idle" -> [out |-> run_idle_state(event).out, buffer |-> buf,
                         ret |-> run_idle_state(event).ret]
      [] st = "Decide" -> run_decide_state(event, buf, keys_map)
      [] OTHER -> run_shift_state(event, buf, keys_map)

NoEvent == [type |-> "NONE", code |-> 0, value |-> 0]

(* Every code the session can write as a key event. *)
SinkCodes ==
    Keys \cup { r[2] % U16 : r \in Rules } \cup { r[3] % U16 : r \in Rules }

(* What the keyboard can send next, and the keys down after it. *)
DeviceEvents(down) ==
    NonKeyEvents
    \cup { KeyEvent(k, Press) : k \in keyboard \ down }
    \cup { KeyEvent(k, v) : k \in down, v \in {Release, Repeat} }

PhysAfter(down, event) ==
    IF event.type # "KEY" THEN down
    ELSE IF event.value = Press THEN down \cup {event.code}
    ELSE IF event.value = Release THEN down \ {event.code}
    ELSE down

(* The virtual device's view of one code after one more written event. *)
SinkStep(st, value) ==
    IF value = Press THEN "down"
    ELSE IF value = Release
         THEN CASE st = "idle" -> "idle"
                [] st = "down" -> "up"
                [] st = "up" -> "dbl"
                [] OTHER -> "dbl"
         ELSE st

RECURSIVE SinkAfter(_, _)
SinkAfter(s, out) ==
    IF out = <<>> THEN s
    ELSE LET e == Head(out)
         IN  SinkAfter(IF e.type = "KEY"
                       THEN [s EXCEPT ![e.code] = SinkStep(s[e.code], e.value)]
                       ELSE s,
                       Tail(out))

(* The balance of key k's effective code after one more written event. *)
BalStep(b, keys, keys_map, e) ==
    [k \in Keys |->
        IF k \in keys /\ e.type = "KEY" /\ e.code = Effective(k, keys_map)
        THEN IF e.value = Press THEN b[k] + 1
             ELSE IF e.value = Release THEN b[k] - 1
             ELSE b[k]
        ELSE b[k]]

RECURSIVE BalAfter(_, _, _, _)
BalAfter(b, keys, keys_map, out) ==
    IF out = <<>> THEN b
    ELSE BalAfter(BalStep(b, keys, keys_map, Head(out)), keys, keys_map,
                  Tail(out))

NoCall == [keys_map |-> <<>>, code |-> 0, value |-> 0, done |-> FALSE,
           out |-> <<>>, ret |-> FALSE, looked |-> FALSE,
           result |-> [mapped |-> 0, ext |-> <<>>]]

NoOp == [op |-> "new", code |-> 0, ret |-> FALSE, before |-> <<>>]

NoDrain == [taken |-> <<>>, before |-> <<>>]

NoFail == [error |-> "", wanted |-> <<>>, at |-> 0]

NoSMOp == [op |-> "new", arg |-> "", before |-> <<>>]

(* No Press written for a key. *)
NoHold == [from |-> "", codes |-> {}]

(* The codes a sequence of written events carries. *)
CodesOf(out) == { out[i].code : i \in 1..Len(out) }

(* The codes released by a sequence of written events. *)
ReleasedBy(out) ==
    { out[i].code : i \in { j \in 1..Len(out) :
                              out[j].type = "KEY" /\ out[j].value = Release } }

(* A record carried over a step that wrote `out`: the codes it released    *)
(* are no longer down.                                                     *)
Carry(r, out) ==
    IF r.codes \ ReleasedBy(out) = {} THEN NoHold
    ELSE [r EXCEPT !.codes = r.codes \ ReleasedBy(out)]

(* For each key, the codes written as Press for it and still down, and the *)
(* branch that wrote them, after a step of kind `kind` in state `st` that  *)
(* read `event` with the buffer `buf` and wrote `out`: send_key in Idle    *)
(* (main.rs:148), the deadline (main.rs:168-170), the tap                  *)
(* (main.rs:188-190), send_mapped_key in Shift (main.rs:244).  A Press     *)
(* read in Decide writes nothing, and a Release read in any state ends the *)
(* record.                                                                 *)
HeldAfter(h, st, kind, event, buf, keys_map, out) ==
    [k \in Keys |->
        IF kind = "timeout"
        THEN IF Contains(buf, k)
             THEN [from |-> "Decide",
                   codes |-> CodesOf(send_mapped_key(k, Press, keys_map).out)]
             ELSE h[k]
        ELSE IF kind # "event" \/ event.type # "KEY" THEN h[k]
        ELSE IF st = "Decide" /\ event.code = KEY_SPACE
                /\ event.value = Release
        THEN IF k = KEY_SPACE THEN NoHold
             ELSE IF Contains(buf, k) THEN [from |-> "Tap", codes |-> {k}]
             ELSE h[k]
        ELSE IF event.code # k THEN Carry(h[k], out)
        ELSE IF event.value = Release THEN NoHold
        ELSE IF event.value # Press THEN h[k]
        ELSE IF k = KEY_SPACE \/ st = "Decide" THEN NoHold
        ELSE IF st = "Idle" THEN [from |-> "Idle", codes |-> {k}]
        ELSE [from |-> "Shift",
              codes |-> CodesOf(send_mapped_key(k, Press, keys_map).out)]]

(* run_state_machine, lines 79-82, with the configuration and the keys     *)
(* held down at the grab drawn from the given sets.                        *)
InitSession(configs, downs) ==
    /\ state = "Idle"
    /\ buffer = <<>>
    /\ current_config \in configs
    /\ pc = "loop"
    /\ elapsed = 0
    /\ phys \in downs
    /\ emitted = <<>>
    /\ last = [kind |-> "init", from |-> "Idle", event |-> NoEvent,
               buffer |-> <<>>]
    /\ sink = [c \in SinkCodes |-> "idle"]
    /\ decKeys = {}
    /\ bal = [k \in Keys |-> 0]
    /\ notes = <<StateChanged("Idle")>>
    /\ shiftKeys = {}
    /\ heldAs = [k \in Keys |-> NoHold]

(* No command sent yet, no error yet; the file is one of `disks`. *)
InitControl(disks) ==
    /\ cmds = <<>>
    /\ drained = NoDrain
    /\ disk \in disks
    /\ fail = NoFail
    /\ observer = "up"

(* StateMachine::new *)
InitStateMachine == smState = "Idle" /\ smBuffer = <<>> /\ smLast = NoSMOp

InitIdleLog == idleIn = <<>> /\ idleOut = <<>>

InitNoCall == call = NoCall

(* KeyBuffer::new *)
InitKeyBuffer == kb = <<>> /\ kbOps = 0 /\ kbLast = NoOp

Init ==
    /\ InitSession(Configs, SUBSET Keys)
    /\ InitIdleLog
    /\ InitNoCall
    /\ InitKeyBuffer
    /\ InitControl({NoFile})
    /\ InitStateMachine
    /\ keyboard = Keys

(* The keys pressed in Shift as themselves and still down, after `event`   *)
(* was read in state `st`.                                                 *)
ShiftKeysAfter(keys, st, event, keys_map) ==
    IF event.type # "KEY" \/ event.code = KEY_SPACE THEN keys
    ELSE IF event.value = Press
    THEN IF st = "Shift" /\ Effective(event.code, keys_map) = event.code
         THEN keys \cup {event.code}
         ELSE keys \ {event.code}
    ELSE IF event.value = Release THEN keys \ {event.code}
    ELSE keys

(* The bookkeeping of a step that consumed `event` and wrote `out`. *)
Wrote(kind, event, out) ==
    /\ emitted' = out
    /\ last' = [kind |-> kind, from |-> state, event |-> event,
                buffer |-> buffer]
    /\ sink' = SinkAfter(sink, out)
    /\ phys' = PhysAfter(phys, event)
    /\ shiftKeys' = ShiftKeysAfter(shiftKeys, state, event, current_config)
    /\ heldAs' = HeldAfter(heldAs, state, kind, event, buffer,
                         current_config, out)

(* A handler propagating the error of a send on state_tx with `?`. *)
after_send_Propagates(ret, sent, up) ==
    IF sent = <<>> \/ up THEN ret ELSE "failed"

(* `let _ = state_tx.send(..)`: the Result of every send is dropped, so    *)
(* the handler goes on to return `ret` (or to loop, ret = "") whether the  *)
(* receiver is there or not.                                               *)
after_send(ret, sent, up) == ret

(* A handler returned `ret`, or keeps looping when ret = ""; what it sent   *)
(* on state_tx for the event of this step.                                 *)
Returned(ret) ==
    LET sent == Notified(last'.event, ret)
        go == after_send(ret, sent, observer = "up")
    IN  /\ IF go = "" THEN UNCHANGED <<state, pc>>
           ELSE IF go = "failed" THEN pc' = "failed" /\ UNCHANGED state
           ELSE state' = go /\ pc' = "dispatch"
        /\ notes' = sent

(* run_state_machine, lines 84-126: the handler has returned; the commands *)
(* in the channel are drained, and unless a Stop was among them the next   *)
(* handler is entered.  Entering run_decide_state clears the buffer and    *)
(* starts the clock.                                                       *)
Dispatch ==
    /\ pc = "dispatch"
    /\ LET d == drain(cmds, current_config, disk)
       IN  /\ current_config' = d.config
           /\ cmds' = d.rest
           /\ drained' = [taken |-> SubSeq(cmds, 1, Len(cmds) - Len(d.rest)),
                          before |-> current_config]
           /\ pc' = IF d.stop THEN "stopped" ELSE "loop"
           /\ IF state = "Decide" /\ ~d.stop
              THEN buffer' = <<>> /\ elapsed' = 0 /\ decKeys' = {}
                   /\ bal' = [k \in Keys |-> 0]
              ELSE UNCHANGED <<buffer, elapsed, decKeys, bal>>
    /\ Wrote("dispatch", NoEvent, <<>>)
    /\ notes' = <<>>
    /\ UNCHANGED <<state, disk, fail, observer>>
    /\ UNCHANGED <<idleLog, call, keyBuffer, stateMachine, keyboard>>

(* One event through run_idle_state. *)
IdleStep(event) ==
    LET r == run_idle_state(event)
    IN  /\ pc = "loop" /\ state = "Idle"
        /\ Wrote("event", event, r.out)
        /\ bal' = BalAfter(bal, decKeys, current_config, r.out)
        /\ Returned(r.ret)
        /\ UNCHANGED <<buffer, current_config, elapsed, decKeys>>

IdleEvent ==
    /\ \E event \in DeviceEvents(phys) : IdleStep(event)
    /\ drained' = NoDrain
    /\ UNCHANGED <<cmds, disk, fail, observer>>
    /\ UNCHANGED <<idleLog, call, keyBuffer, stateMachine, keyboard>>

(* Time passes before the clock of run_decide_state is read again. *)
DecideTick ==
    /\ pc = "loop" /\ state = "Decide"
    /\ elapsed < DECIDE_TIMEOUT_MS
    /\ elapsed' = elapsed + TickMs
    /\ Wrote("tick", NoEvent, <<>>)
    /\ notes' = <<>>
    /\ UNCHANGED <<state, buffer, current_config, pc, bal, decKeys>>
    /\ drained' = NoDrain
    /\ UNCHANGED <<cmds, disk, fail, observer>>
    /\ UNCHANGED <<idleLog, call, keyBuffer, stateMachine, keyboard>>

DecideTimeout ==
    /\ pc = "loop" /\ state = "Decide"
    /\ elapsed >= DECIDE_TIMEOUT_MS
    /\ LET r == decide_timeout(buffer, current_config)
       IN  /\ Wrote("timeout", NoEvent, r.out)
           /\ bal' = BalAfter(bal, decKeys, current_config, r.out)
           /\ buffer' = r.buffer
           /\ Returned(r.ret)
    /\ UNCHANGED <<current_config, elapsed, decKeys>>
    /\ drained' = NoDrain
    /\ UNCHANGED <<cmds, disk, fail, observer>>
    /\ UNCHANGED <<idleLog, call, keyBuffer, stateMachine, keyboard>>

(* run_decide_state with `start` taken again after every event.           *)
DecideEvent_Restarts ==
    /\ pc = "loop" /\ state = "Decide"
    /\ elapsed < DECIDE_TIMEOUT_MS
    /\ \E event \in DeviceEvents(phys) :
          LET r == run_decide_state(event, buffer, current_config)
          IN  /\ Wrote("event", event, r.out)
              /\ buffer' = r.buffer
              /\ decKeys' = IF event.type = "KEY" /\ event.value = Press
                            THEN decKeys \cup {event.code} ELSE decKeys
              /\ bal' = IF event.type = "KEY" /\ event.value = Press
                        THEN [bal EXCEPT ![event.code] = 0]
                        ELSE BalAfter(bal, decKeys, current_config, r.out)
              /\ Returned(r.ret)
    /\ elapsed' = 0
    /\ UNCHANGED current_config
    /\ drained' = NoDrain
    /\ UNCHANGED <<cmds, disk, fail, observer>>
    /\ UNCHANGED <<idleLog, call, keyBuffer, stateMachine, keyboard>>

DecideEvent ==
    /\ pc = "loop" /\ state = "Decide"
    /\ elapsed < DECIDE_TIMEOUT_MS
    /\ \E event \in DeviceEvents(phys) :
          LET r == run_decide_state(event, buffer, current_config)
          IN  /\ Wrote("event", event, r.out)
              /\ buffer' = r.buffer
              /\ decKeys' = IF event.type = "KEY" /\ event.value = Press
                            THEN decKeys \cup {event.code} ELSE decKeys
              /\ bal' = IF event.type = "KEY" /\ event.value = Press
                        THEN [bal EXCEPT ![event.code] = 0]
                        ELSE BalAfter(bal, decKeys, current_config, r.out)
              /\ Returned(r.ret)
    /\ UNCHANGED <<current_config, elapsed>>
    /\ drained' = NoDrain
    /\ UNCHANGED <<cmds, disk, fail, observer>>
    /\ UNCHANGED <<idleLog, call, keyBuffer, stateMachine, keyboard>>

ShiftEvent ==
    /\ pc = "loop" /\ state = "Shift"
    /\ \E event \in DeviceEvents(phys) :
          LET r == run_shift_state(event, buffer, current_config)
          IN  /\ Wrote("event", event, r.out)
              /\ bal' = BalAfter(bal, decKeys, current_config, r.out)
              /\ buffer' = r.buffer
              /\ Returned(r.ret)
    /\ UNCHANGED <<current_config, elapsed, decKeys>>
    /\ drained' = NoDrain
    /\ UNCHANGED <<cmds, disk, fail, observer>>
    /\ UNCHANGED <<idleLog, call, keyBuffer, stateMachine, keyboard>>

Next ==
    \/ Dispatch
    \/ IdleEvent
    \/ DecideTick
    \/ DecideTimeout
    \/ DecideEvent
    \/ ShiftEvent

Spec == Init /\ [][Next]_vars

(***************************************************************************)
(* A stay in Idle, logged: what run_idle_state read and what it wrote.     *)
(***************************************************************************)
IdleLogged ==
    /\ Len(idleIn) < MaxLog
    /\ \E event \in DeviceEvents(phys) :
          /\ IdleStep(event)
          /\ idleIn' = Append(idleIn, event)
          /\ idleOut' = idleOut \o run_idle_state(event).out
    /\ UNCHANGED <<call, keyBuffer, control, stateMachine, keyboard>>

SpecIdle == Init /\ [][IdleLogged]_vars

(***************************************************************************)
(* send_mapped_key alone, on drawn arguments.                              *)
(***************************************************************************)
(* u32 fields of a rule: zero, small codes, and values `as u16` truncates. *)
MapRules == { <<o, r, e>> : o \in {30, U16 + 30},
                            r \in {0, 30, 105, U16, U16 + 31},
                            e \in {0, 109, U16} }

MapConfigs == UNION { [1..n -> MapRules] : n \in 0..MaxRules }

MapCodes == {0, 30, 31}

InitMap ==
    /\ InitSession({<<>>}, {{}})
    /\ InitIdleLog
    /\ InitKeyBuffer
    /\ InitControl({NoFile})
    /\ InitStateMachine
    /\ keyboard = Keys
    /\ call \in [keys_map : MapConfigs, code : MapCodes,
                 value : {Release, Press, Repeat}, done : {FALSE},
                 out : {<<>>}, ret : {FALSE}, looked : {FALSE},
                 result : {NoCall.result}]

SendMapped ==
    /\ ~call.done
    /\ LET r == send_mapped_key(call.code, call.value, call.keys_map)
       IN  call' = [call EXCEPT !.done = TRUE, !.out = r.out, !.ret = r.ret]
    /\ UNCHANGED <<session, idleLog, keyBuffer, control, stateMachine,
                    keyboard>>

(* StateMachine::new(config).map_key(code) on the drawn arguments. *)
MapKey ==
    /\ ~call.looked
    /\ call' = [call EXCEPT !.looked = TRUE,
                            !.result = map_key(call.keys_map, call.code)]
    /\ UNCHANGED <<session, idleLog, keyBuffer, control, stateMachine,
                    keyboard>>

NextMap == SendMapped \/ MapKey

SpecMap == InitMap /\ [][NextMap]_vars

(***************************************************************************)
(* A KeyBuffer alone: append, remove and clear in any order.               *)
(***************************************************************************)
(* The buffer after 0..MAX_BUFFER appends of the codes 1, 2, ... *)
InitKB ==
    /\ InitSession({<<>>}, {{}})
    /\ InitIdleLog
    /\ InitNoCall
    /\ InitControl({NoFile})
    /\ InitStateMachine
    /\ keyboard = Keys
    /\ kb \in { [i \in 1..n |-> i] : n \in 0..MAX_BUFFER }
    /\ kbOps = 0
    /\ kbLast = NoOp

KBDid(op, code, ret) ==
    /\ kbOps < MaxKBOps
    /\ kbOps' = kbOps + 1
    /\ kbLast' = [op |-> op, code |-> code, ret |-> ret, before |-> kb]
    /\ UNCHANGED <<session, idleLog, call, control, stateMachine, keyboard>>

KBAppend ==
    \E code \in 1..KBCodes :
        LET r == KeyBuffer_append(kb, code)
        IN  kb' = r.buffer /\ KBDid("append", code, r.ret)

KBRemove ==
    \E code \in 1..KBCodes :
        LET r == KeyBuffer_remove(kb, code)
        IN  kb' = r.buffer /\ KBDid("remove", code, r.ret)

KBClear == kb' = KeyBuffer_clear(kb) /\ KBDid("clear", 0, FALSE)

NextKB == KBAppend \/ KBRemove \/ KBClear

SpecKB == InitKB /\ [][NextKB]_vars


(***************************************************************************)
(* The session on a wide keyboard: the modifier and the keys 1..SatCodes,  *)
(* no mapping rule.  The keys go down in ascending order and the highest   *)
(* key down comes up first.                                                *)
(***************************************************************************)
SatKeys == 1..SatCodes

SatEvents(down) ==
    NonKeyEvents
    \cup { KeyEvent(KEY_SPACE, Press) : k \in {KEY_SPACE} \ down }
    \cup { KeyEvent(k, Press) :
              k \in { j \in SatKeys \ down : \A i \in 1..(j - 1) : i \in down } }
    \cup { KeyEvent(KEY_SPACE, v) :
              k \in {KEY_SPACE} \cap down, v \in {Release, Repeat} }
    \cup { KeyEvent(k, v) :
              k \in { j \in SatKeys \cap down : j + 1 \notin down },
              v \in {Release, Repeat} }

InitSat ==
    /\ InitSession({<<>>}, {{}})
    /\ InitIdleLog
    /\ InitNoCall
    /\ InitKeyBuffer
    /\ InitControl({NoFile})
    /\ InitStateMachine
    /\ keyboard = {KEY_SPACE} \cup SatKeys

(* The bookkeeping of a step on the wide keyboard; the per-code histories  *)
(* of the three-key keyboard are not kept.                                 *)
SatWrote(kind, event, out) ==
    /\ emitted' = out
    /\ last' = [kind |-> kind, from |-> state, event |-> event,
                buffer |-> buffer]
    /\ phys' = PhysAfter(phys, event)
    /\ UNCHANGED <<sink, decKeys, bal, shiftKeys, heldAs>>

(* One event through the handler of the current state. *)
SatEvent ==
    /\ pc = "loop"
    /\ state = "Decide" => elapsed < DECIDE_TIMEOUT_MS
    /\ \E event \in SatEvents(phys) :
          LET r == run_handler(state, event, buffer, current_config)
          IN  /\ SatWrote("event", event, r.out)
              /\ buffer' = r.buffer
              /\ Returned(r.ret)
    /\ UNCHANGED <<current_config, elapsed>>
    /\ UNCHANGED <<idleLog, call, keyBuffer, control, stateMachine, keyboard>>

SatTimeout ==
    /\ pc = "loop" /\ state = "Decide"
    /\ elapsed >= DECIDE_TIMEOUT_MS
    /\ LET r == decide_timeout(buffer, current_config)
       IN  /\ SatWrote("timeout", NoEvent, r.out)
           /\ buffer' = r.buffer
           /\ Returned(r.ret)
    /\ UNCHANGED <<current_config, elapsed>>
    /\ UNCHANGED <<idleLog, call, keyBuffer, control, stateMachine, keyboard>>

NextSat == Dispatch \/ DecideTick \/ SatEvent \/ SatTimeout

SpecSat == InitSat /\ [][NextSat]_vars


(***************************************************************************)
(* A StateMachine of core.rs beside the session: set_state in any order,   *)
(* and appends to its buffer as code of core.rs can do them.               *)
(***************************************************************************)
States == {"Idle", "Decide", "Shift"}

SMCodes == {30}

InitSM ==
    /\ InitSession({<<>>}, {{}})
    /\ InitIdleLog
    /\ InitNoCall
    /\ InitKeyBuffer
    /\ InitControl({NoFile})
    /\ InitStateMachine
    /\ keyboard = Keys

SMSetState ==
    /\ \E s \in States :
          LET r == StateMachine_set_state(smState, smBuffer, s)
          IN  /\ smState' = r.state
              /\ smBuffer' = r.buffer
              /\ smLast' = [op |-> "set_state", arg |-> s,
                            before |-> smBuffer]
    /\ UNCHANGED <<session, idleLog, call, keyBuffer, control, keyboard>>

SMAppend ==
    /\ \E code \in SMCodes :
          /\ smBuffer' = KeyBuffer_append(smBuffer, code).buffer
          /\ smLast' = [op |-> "append", arg |-> "", before |-> smBuffer]
    /\ UNCHANGED smState
    /\ UNCHANGED <<session, idleLog, call, keyBuffer, control, keyboard>>

NextSM == SMSetState \/ SMAppend \/ Next

SpecSM == InitSM /\ [][NextSM]_vars


(***************************************************************************)
(* The session with a holder of cmd_tx sending commands at any moment and  *)
(* the configuration file changing at any moment.                          *)
(***************************************************************************)
Commands == {"ReloadConfig", "Stop"}

CmdDisks == {NoFile, BadFile, GoodFile(<<RuleRemap>>)}

(* The keyboard of these runs: the modifier and one key with a rule. *)
CmdKeys == {KEY_SPACE, 30}

(* main, lines 434-440: the configuration the session starts with. *)
StartupConfig(d) ==
    IF Config_load(d).ok THEN Config_load(d).keys_map ELSE <<>>

InitCmd ==
    /\ InitControl(CmdDisks)
    /\ InitSession({StartupConfig(disk)}, {{}})
    /\ InitIdleLog
    /\ InitNoCall
    /\ InitKeyBuffer
    /\ InitStateMachine
    /\ keyboard = CmdKeys

(* cmd_tx.send(command); the channel is closed once the session has ended. *)
SendCommand ==
    /\ pc \in {"loop", "dispatch"}
    /\ Len(cmds) < MaxCmds
    /\ \E c \in Commands : cmds' = Append(cmds, c)
    /\ UNCHANGED <<drained, disk, fail, observer>>
    /\ UNCHANGED <<session, idleLog, call, keyBuffer, stateMachine, keyboard>>

(* The configuration file is written, removed or damaged. *)
EditConfigFile ==
    /\ \E d \in CmdDisks \ {disk} : disk' = d
    /\ UNCHANGED <<cmds, drained, fail, observer>>
    /\ UNCHANGED <<session, idleLog, call, keyBuffer, stateMachine, keyboard>>

NextCmd == SendCommand \/ EditConfigFile \/ Next

SpecCmd == InitCmd /\ [][NextCmd]_vars


(***************************************************************************)
(* The session from its setup on, with every call that returns a Result    *)
(* able to fail: the setup, a read of the device, a write to the virtual   *)
(* device.                                                                 *)
(***************************************************************************)
FailConfigs == { <<>>, <<RuleBoth, RuleExtOnly>> }

(* The writes of `out` with every error dropped: the write that fails is   *)
(* skipped and the later ones are made.                                    *)
emit_all_SkipFailed(out, failAt) ==
    SubSeq(out, 1, failAt - 1) \o SubSeq(out, failAt + 1, Len(out))

(* The writes of `out` when write number failAt returns Err: `?` returns   *)
(* from the handler before the later writes.                               *)
emit_all(out, failAt) == SubSeq(out, 1, failAt - 1)

(* run_state_machine is called: nothing opened, nothing sent yet. *)
InitFail ==
    /\ state = "Idle"
    /\ buffer = <<>>
    /\ current_config \in FailConfigs
    /\ pc = "setup"
    /\ elapsed = 0
    /\ phys = {}
    /\ emitted = <<>>
    /\ last = [kind |-> "init", from |-> "Idle", event |-> NoEvent,
               buffer |-> <<>>]
    /\ sink = [c \in SinkCodes |-> "idle"]
    /\ decKeys = {}
    /\ bal = [k \in Keys |-> 0]
    /\ notes = <<>>
    /\ shiftKeys = {}
    /\ heldAs = [k \in Keys |-> NoHold]
    /\ InitIdleLog
    /\ InitNoCall
    /\ InitKeyBuffer
    /\ InitControl({NoFile})
    /\ InitStateMachine
    /\ keyboard = Keys

(* Lines 75-82: device opened, virtual device built, device grabbed. *)
SetupDone ==
    /\ pc = "setup"
    /\ pc' = "loop"
    /\ notes' = <<StateChanged(state)>>
    /\ UNCHANGED <<state, buffer, current_config, elapsed, phys, emitted,
                   last, sink, decKeys, bal, shiftKeys,
                   heldAs>>
    /\ UNCHANGED <<idleLog, call, keyBuffer, control, stateMachine, keyboard>>

(* A step that ends run_state_machine with Err. *)
Failed(kind, event, error, wanted, at) ==
    /\ pc' = "failed"
    /\ fail' = [error |-> error, wanted |-> wanted, at |-> at]
    /\ last' = [kind |-> kind, from |-> state, event |-> event,
                buffer |-> buffer]
    /\ emitted' = emit_all(wanted, at)
    /\ sink' = SinkAfter(sink, emitted')
    /\ bal' = BalAfter(bal, decKeys, current_config, emitted')
    /\ phys' = PhysAfter(phys, event)
    /\ shiftKeys' = ShiftKeysAfter(shiftKeys, state, event, current_config)
    /\ heldAs' = HeldAfter(heldAs, state, kind, event, buffer,
                         current_config, emitted')
    /\ notes' = Notified(event, "")
    /\ UNCHANGED <<state, buffer, current_config, elapsed, decKeys>>
    /\ UNCHANGED <<cmds, drained, disk, observer>>
    /\ UNCHANGED <<idleLog, call, keyBuffer, stateMachine, keyboard>>

(* Lines 75-78: open_device, create_uinput_device or device.grab fails. *)
SetupFails ==
    /\ pc = "setup"
    /\ Failed("setupfail", NoEvent, "setup", <<>>, 0)

(* device.fetch_events()? fails in a handler. *)
ReadFails ==
    /\ pc = "loop"
    /\ state = "Decide" => elapsed < DECIDE_TIMEOUT_MS
    /\ Failed("readfail", NoEvent, "read", <<>>, 0)

(* A write of a handler fails while it answers an event. *)
WriteFails ==
    /\ pc = "loop"
    /\ state = "Decide" => elapsed < DECIDE_TIMEOUT_MS
    /\ \E event \in DeviceEvents(phys) :
          LET r == run_handler(state, event, buffer, current_config)
          IN  \E at \in 1..Len(r.out) :
                  Failed("writefail", event, "write", r.out, at)

(* A write of the Decide handler fails while it answers the deadline. *)
TimeoutWriteFails ==
    /\ pc = "loop" /\ state = "Decide"
    /\ elapsed >= DECIDE_TIMEOUT_MS
    /\ LET r == decide_timeout(buffer, current_config)
       IN  \E at \in 1..Len(r.out) :
               Failed("writefail", NoEvent, "write", r.out, at)

(* main, lines 473-477: run_state_machine has returned; an Err is logged. *)
CoreExit ==
    /\ pc \in {"failed", "stopped"}
    /\ pc' = "exited"
    /\ emitted' = <<>>
    /\ notes' = <<>>
    /\ last' = [kind |-> "exit", from |-> state, event |-> NoEvent,
                buffer |-> buffer]
    /\ UNCHANGED <<state, buffer, current_config, elapsed, phys, sink,
                   decKeys, bal, shiftKeys, heldAs>>
    /\ UNCHANGED <<idleLog, call, keyBuffer, control, stateMachine, keyboard>>

NextFail ==
    \/ SetupDone
    \/ SetupFails
    \/ ReadFails
    \/ WriteFails
    \/ TimeoutWriteFails
    \/ CoreExit
    \/ Next

SpecFail == InitFail /\ [][NextFail]_vars

(***************************************************************************)
(* Claims.                                                                 *)
(***************************************************************************)
(* Every key is up, the modifier included, and the session waits in Idle. *)
Quiescent == state = "Idle" /\ pc = "loop" /\ phys = {}

(* C1: once every physical key has been released and the machine is back  *)
(* in Idle, no emitted Press is left without its Release (sink "down") and *)
(* none has been answered by two Releases (sink "dbl").                    *)
C1_EveryPressAnsweredOnce ==
    Quiescent => \A c \in SinkCodes : sink[c] \in {"idle", "up"}

(* C2: a key pressed during Decide and released later in the cycle has, in *)
(* Idle, as many Presses as Releases emitted for its effective code since  *)
(* its Press arrived.                                                      *)
C2_PressesEqualReleases ==
    (state = "Idle" /\ pc = "loop") =>
        \A k \in decKeys \ phys : bal[k] = 0

(* The steps the claims speak of, read off the last step. *)
IdleKeyStep ==
    last.kind = "event" /\ last.from = "Idle" /\ last.event.type = "KEY"

DecideKeyStep ==
    last.kind = "event" /\ last.from = "Decide" /\ last.event.type = "KEY"

TapStep == DecideKeyStep /\ last.event = KeyEvent(KEY_SPACE, Release)

ComboStep ==
    /\ DecideKeyStep
    /\ last.event.value = Release
    /\ last.event.code # KEY_SPACE
    /\ \E i \in 1..Len(last.buffer) : last.buffer[i] = last.event.code

TimeoutStep == last.kind = "timeout"

ShiftReleaseStep ==
    /\ last.kind = "event" /\ last.from = "Shift"
    /\ last.event = KeyEvent(KEY_SPACE, Release)

RECURSIVE RuleOf(_, _)
(* The first rule of the list for the code; <<code, 0, 0>> when none is. *)
RuleOf(keys_map, code) ==
    IF keys_map = <<>> THEN <<code, 0, 0>>
    ELSE IF Head(keys_map)[1] = code THEN Head(keys_map)
    ELSE RuleOf(Tail(keys_map), code)

(* The mapping table's answer for a code, as events of one kind: the       *)
(* extended code if the rule has one, then the effective code.             *)
Resolved(code, value, keys_map) ==
    LET r == RuleOf(keys_map, code)
    IN  (IF r[3] # 0 THEN <<KeyEvent(r[3] % U16, value)>> ELSE <<>>)
        \o <<KeyEvent(IF r[2] % U16 # 0 THEN r[2] % U16 ELSE code, value)>>

RECURSIVE ResolvedAll(_, _, _)
ResolvedAll(buf, value, keys_map) ==
    IF buf = <<>> THEN <<>>
    ELSE Resolved(Head(buf), value, keys_map)
         \o ResolvedAll(Tail(buf), value, keys_map)

IsModifierEvent(e) == e.type = "KEY" /\ e.code = KEY_SPACE

(* C3: a stay in Idle whose input holds no event of the modifier code has  *)
(* written exactly its input, in order, and is still in Idle.              *)
C3_IdleForwardsInOrder ==
    (\A i \in 1..Len(idleIn) : ~IsModifierEvent(idleIn[i]))
        => idleOut = idleIn /\ state = "Idle" /\ pc = "loop"

C3_ForwardedMixedInput ==
    /\ Len(idleIn) >= 3
    /\ \A i \in 1..Len(idleIn) : ~IsModifierEvent(idleIn[i])
    /\ \E i \in 1..Len(idleIn) : idleIn[i].type # "KEY"
    /\ \E i \in 1..Len(idleIn) : idleIn[i] = KeyEvent(30, Repeat)
    /\ \E i \in 1..Len(idleIn) : idleIn[i] = KeyEvent(31, Press)
    /\ idleOut = idleIn

(* C4: in Idle a modifier Press writes nothing and leads to Decide; every  *)
(* other key event is written unchanged and the machine stays in Idle.     *)
C4_IdleKeyEvents ==
    IdleKeyStep =>
        IF last.event = KeyEvent(KEY_SPACE, Press)
        THEN emitted = <<>> /\ state = "Decide"
        ELSE emitted = <<last.event>> /\ state = "Idle" /\ pc = "loop"

C4_ModifierPressWithheld ==
    IdleKeyStep /\ last.event = KeyEvent(KEY_SPACE, Press)
    /\ emitted = <<>> /\ state = "Decide"

(* C5: the tap outcome writes modifier Press, modifier Release, then a     *)
(* plain Press of each buffered code in buffer order, nothing else, and    *)
(* returns Idle.                                                           *)
C5_Tap ==
    TapStep =>
        /\ emitted = <<KeyEvent(KEY_SPACE, Press), KeyEvent(KEY_SPACE, Release)>>
                     \o [i \in 1..Len(last.buffer) |->
                            KeyEvent(last.buffer[i], Press)]
        /\ state = "Idle"
        /\ elapsed < DECIDE_TIMEOUT_MS

C5_TapFlushesTwoKeys ==
    /\ TapStep
    /\ Len(last.buffer) = 2
    /\ RuleOf(current_config, last.buffer[2]) = RuleBoth
    /\ Len(emitted) = 4

(* C6 as claimed: the combo outcome writes the released code's mapped      *)
(* Press then mapped Release, returns Shift, and leaves the buffer empty.  *)
C6_ComboEmptiesBuffer ==
    ComboStep =>
        /\ emitted = Resolved(last.event.code, Press, current_config)
                     \o Resolved(last.event.code, Release, current_config)
        /\ state = "Shift"
        /\ buffer = <<>>

(* C6, amended: the combo outcome writes the released code's mapped Press  *)
(* then mapped Release, returns Shift, and leaves in the buffer the other  *)
(* buffered codes, in order (none when the released code was alone).       *)
C6_Combo ==
    ComboStep =>
        /\ emitted = Resolved(last.event.code, Press, current_config)
                     \o Resolved(last.event.code, Release, current_config)
        /\ state = "Shift"
        /\ buffer = SelectSeq(last.buffer, LAMBDA c : c # last.event.code)
        /\ (Len(last.buffer) = 1 => buffer = <<>>)

C6_ComboLeavesOtherKey ==
    /\ ComboStep
    /\ Len(last.buffer) = 2
    /\ last.event.code = last.buffer[1]
    /\ RuleOf(current_config, last.event.code) = RuleBoth
    /\ Len(buffer) = 1

(* C7: the timeout outcome writes the mapped Press of each buffered code   *)
(* in buffer order and no Release, returns Shift and keeps the buffer.     *)
C7_Timeout ==
    TimeoutStep =>
        /\ emitted = ResolvedAll(last.buffer, Press, current_config)
        /\ \A i \in 1..Len(emitted) : emitted[i].value = Press
        /\ state = "Shift"
        /\ buffer = last.buffer
        /\ elapsed >= DECIDE_TIMEOUT_MS

C7_TimeoutWithTwoKeys ==
    /\ TimeoutStep
    /\ last.buffer = <<31, 30>>
    /\ current_config = <<RuleBoth, RuleExtOnly>>
    /\ Len(emitted) = 4

(* C8: a modifier Release in Shift writes the mapped Release of each code  *)
(* still in the buffer, in buffer order, no modifier event, empties the    *)
(* buffer and returns Idle.                                                *)
C8_ShiftRelease ==
    ShiftReleaseStep =>
        /\ emitted = ResolvedAll(last.buffer, Release, current_config)
        /\ \A i \in 1..Len(emitted) : emitted[i].code # KEY_SPACE
        /\ buffer = <<>>
        /\ state = "Idle"

C8_ShiftReleaseOfTwoKeys ==
    /\ ShiftReleaseStep
    /\ Len(last.buffer) = 2
    /\ RuleOf(current_config, last.buffer[1]) = RuleRemap
    /\ Len(emitted) = 2
    /\ buffer = <<>>

(* C9: a call of the mapped-emission helper for a code whose rule has an   *)
(* extended code writes the extended-code event and then the effective-    *)
(* code event, both of the call's kind; and every call returns true        *)
(* exactly when the effective code written differs from the code given.    *)
C9_ExtendedFirst ==
    call.done =>
        LET r == RuleOf(call.keys_map, call.code)
            n == Len(call.out)
        IN  /\ n >= 1
            /\ call.out[n].type = "KEY"
            /\ call.out[n].value = call.value
            /\ call.out[n].code \in {call.code, r[2] % U16}
            /\ call.ret = (call.out[n].code # call.code)
            /\ r[3] # 0 =>
                  /\ n = 2
                  /\ call.out[1] = KeyEvent(r[3] % U16, call.value)

C9_ExtendedAndRemapped ==
    /\ call.done
    /\ call.value = Repeat
    /\ call.code = 30
    /\ call.out = <<KeyEvent(109, Repeat), KeyEvent(105, Repeat)>>
    /\ call.ret

(* C10: a KeyBuffer never holds a code twice nor more than 8 codes. *)
C10_NoDuplicatesWithinCapacity ==
    /\ Len(kb) <= MAX_BUFFER
    /\ \A i, j \in 1..Len(kb) : kb[i] = kb[j] => i = j

C10_NinthAppendRefused ==
    /\ kbLast.op = "append"
    /\ Len(kbLast.before) = MAX_BUFFER
    /\ \A i \in 1..Len(kbLast.before) : kbLast.before[i] # kbLast.code
    /\ ~kbLast.ret
    /\ kb = kbLast.before

(* C11: KeyBuffer::append returns false and leaves the buffer as it was    *)
(* when the buffer already holds 8 codes or already holds the code, and    *)
(* otherwise returns true and adds the code; KeyBuffer::remove of a code   *)
(* the buffer does not hold returns false and leaves the buffer as it was. *)
C11_AppendAndRemoveRefusals ==
    LET before == kbLast.before
        held == \E i \in 1..Len(before) : before[i] = kbLast.code
    IN  /\ kbLast.op = "append" =>
              IF Len(before) >= MAX_BUFFER \/ held
              THEN ~kbLast.ret /\ kb = before
              ELSE /\ kbLast.ret
                   /\ Len(kb) = Len(before) + 1
                   /\ \E i \in 1..Len(kb) : kb[i] = kbLast.code
                   /\ \A i \in 1..Len(before) :
                          \E j \in 1..Len(kb) : kb[j] = before[i]
        /\ (kbLast.op = "remove" /\ ~held) =>
              ~kbLast.ret /\ kb = before

(* The eighth distinct append succeeds, and the buffer is full. *)
C11_EighthAppendAccepted ==
    /\ kbLast.op = "append"
    /\ Len(kbLast.before) = MAX_BUFFER - 1
    /\ kbLast.ret
    /\ Len(kb) = MAX_BUFFER

(* C12: iterating a KeyBuffer yields its codes in the order they were      *)
(* appended; a successful remove deletes exactly the removed code, and the *)
(* other codes stay in the same relative order.                            *)
C12_InsertionOrderKept ==
    LET before == KeyBuffer_iter(kbLast.before)
        now == KeyBuffer_iter(kb)
    IN  /\ (kbLast.op = "append" /\ kbLast.ret) =>
              now = before \o <<kbLast.code>>
        /\ (kbLast.op = "remove" /\ kbLast.ret) =>
              /\ Len(now) = Len(before) - 1
              /\ now = SelectSeq(before, LAMBDA c : c # kbLast.code)

(* A code is removed from the middle of three. *)
C12_MiddleRemoved ==
    /\ kbLast.op = "remove"
    /\ kbLast.ret
    /\ kbLast.before = <<1, 2, 3>>
    /\ kbLast.code = 2
    /\ kb = <<1, 3>>

(* C13 as stated: map_key returns the fields of the first rule for the     *)
(* code as they stand in the rule: effective = replacement field, or the   *)
(* code when that field is 0; extended = Some(extended field), or None     *)
(* when that field is 0; (code, None) when no rule is for the code.        *)
C13_FirstRuleFields ==
    call.looked =>
        LET r == RuleOf(call.keys_map, call.code)
        IN  call.result =
                [mapped |-> IF r[2] # 0 THEN r[2] ELSE call.code,
                 ext |-> IF r[3] # 0 THEN <<r[3]>> ELSE <<>>]

(* C13, amended: map_key returns the fields of the first rule for the code *)
(* reduced to 16 bits: effective = replacement field mod 65536, or the     *)
(* code when that field is 0; extended = Some(extended field mod 65536),   *)
(* or None when that field is 0; (code, None) when no rule is for the      *)
(* code.                                                                   *)
C13_FirstRuleFieldsAsU16 ==
    call.looked =>
        LET r == RuleOf(call.keys_map, call.code)
        IN  call.result =
                [mapped |-> IF r[2] # 0 THEN r[2] % U16 ELSE call.code,
                 ext |-> IF r[3] # 0 THEN <<r[3] % U16>> ELSE <<>>]

(* Two rules for code 30; the first one, with a replacement above 16 bits  *)
(* and an extended code, decides.                                          *)
C13_FirstOfTwoRulesDecides ==
    /\ call.looked
    /\ call.code = 30
    /\ call.keys_map = << <<30, U16 + 31, 109>>, <<30, 105, 0>> >>
    /\ call.result = [mapped |-> 31, ext |-> <<109>>]

(* C20: in every state, a step that processes an event of another type     *)
(* than EV_KEY writes exactly that event, unchanged, and leaves the state, *)
(* the handler, the buffer and the time read off the Decide clock as they  *)
(* were.                                                                   *)
C20_NonKeyPassesThrough ==
    [][(last'.kind = "event" /\ last'.event.type # "KEY") =>
          /\ emitted' = <<last'.event>>
          /\ state' = state
          /\ pc' = pc
          /\ buffer' = buffer
          /\ elapsed' = elapsed
          /\ current_config' = current_config]_vars

(* A scancode event passes through in Decide, with a key buffered and half *)
(* the window gone.                                                        *)
C20_NonKeyInDecide ==
    /\ last.kind = "event"
    /\ last.from = "Decide"
    /\ last.event.type = "MSC"
    /\ emitted = <<last.event>>
    /\ state = "Decide"
    /\ buffer # <<>>
    /\ elapsed = TickMs

(* C14: the session's key buffer never holds more than 8 codes; a Press    *)
(* that arrives in Decide when the buffer holds 8 codes, or holds the      *)
(* code already, leaves the buffer as it was, emits nothing and ends       *)
(* nothing.                                                                *)
C14_SessionBufferBounded ==
    /\ Len(buffer) <= MAX_BUFFER
    /\ (/\ DecideKeyStep
        /\ last.event.value = Press
        /\ last.event.code # KEY_SPACE
        /\ \/ Len(last.buffer) >= MAX_BUFFER
           \/ \E i \in 1..Len(last.buffer) : last.buffer[i] = last.event.code)
       => buffer = last.buffer /\ emitted = <<>> /\ state = "Decide"

(* C15: entering Decide clears the key buffer, whatever it held: after     *)
(* StateMachine::set_state(Decide) the machine's buffer is empty, and the  *)
(* session's buffer is empty when the Decide handler starts processing     *)
(* events; setting or entering any other state leaves the buffer as it     *)
(* was.                                                                    *)
C15_DecideEntryClears ==
    /\ smLast.op = "set_state" =>
          /\ smState = smLast.arg
          /\ smBuffer = IF smLast.arg = "Decide" THEN <<>> ELSE smLast.before
    /\ last.kind = "dispatch" /\ pc = "loop" =>
          buffer = IF state = "Decide" THEN <<>> ELSE last.buffer

(* Both entries find codes in the buffer and leave none. *)
C15_BothBuffersCleared ==
    /\ smLast = [op |-> "set_state", arg |-> "Decide", before |-> <<30>>]
    /\ smBuffer = <<>>
    /\ last.kind = "dispatch" /\ pc = "loop" /\ state = "Decide"
    /\ last.buffer # <<>>
    /\ buffer = <<>>

(* The place of the first Stop in a queue of commands; 0 if none. *)
FirstStop(queue) ==
    LET stops == { i \in 1..Len(queue) : queue[i] = "Stop" }
    IN  IF stops = {} THEN 0
        ELSE CHOOSE i \in stops : \A j \in stops : i <= j

(* C16: a Stop takes effect only in a command drain, never in a step of a  *)
(* handler; the first drain that finds a Stop in the channel ends the      *)
(* session there: no handler is entered, nothing is written or notified,   *)
(* state and buffer stay, the commands behind the Stop stay in the         *)
(* channel; and an ended session does nothing more.                        *)
C16_StopOnlyAtDrain ==
    [][/\ (pc' = "stopped" /\ pc # "stopped") =>
              pc = "dispatch" /\ FirstStop(cmds) # 0
       /\ (pc = "dispatch" /\ pc' # "dispatch" /\ FirstStop(cmds) # 0) =>
              /\ pc' = "stopped"
              /\ emitted' = <<>> /\ notes' = <<>>
              /\ state' = state /\ buffer' = buffer /\ sink' = sink
              /\ cmds' = SubSeq(cmds, FirstStop(cmds) + 1, Len(cmds))
       /\ pc = "stopped" => UNCHANGED <<session, cmds>>]_vars

(* The session ended before entering Decide, a ReloadConfig left behind    *)
(* the Stop and the file it would have loaded not loaded.                  *)
C16_StoppedBeforeQueuedReload ==
    /\ pc = "stopped"
    /\ state = "Decide"
    /\ drained.taken = <<"Stop">>
    /\ cmds = <<"ReloadConfig">>
    /\ disk = GoodFile(<<RuleRemap>>)
    /\ current_config = <<>>

(* C17: the configuration changes in no step of a handler; it changes only *)
(* in a command drain that takes a ReloadConfig not behind a Stop, and     *)
(* then to the whole configuration the file loads as.                      *)
C17_ConfigChangesOnlyInDrain ==
    [][current_config' # current_config =>
          /\ pc = "dispatch" /\ pc' # "dispatch"
          /\ \E i \in 1..Len(cmds) :
                 /\ cmds[i] = "ReloadConfig"
                 /\ \A j \in 1..i : cmds[j] # "Stop"
          /\ disk.file # "bad"
          /\ current_config' = IF disk.file = "good" THEN disk.keys_map
                               ELSE <<>>]_vars

(* The Shift handler is entered with the rule list that the drain before   *)
(* it has loaded in place of the empty one.                                *)
C17_HandlerRunsReloadedConfig ==
    /\ drained.before = <<>>
    /\ current_config = <<RuleRemap>>
    /\ drained.taken = <<"ReloadConfig">>
    /\ pc = "loop" /\ state = "Shift"
    /\ last.kind = "dispatch"
    /\ disk = GoodFile(<<RuleRemap>>)

(* C18: when a write to the virtual device fails, in any state and at any  *)
(* place of the events a handler has to write, the handler's earlier       *)
(* writes of that step are all that was written, the state is not changed, *)
(* and the session has failed; a failed session writes nothing more, reads *)
(* no further device event, and ends.                                      *)
C18_WriteFailureEndsSession ==
    [][/\ (fail'.error = "write" /\ fail.error = "") =>
              /\ pc = "loop" /\ pc' = "failed"
              /\ fail'.at \in 1..Len(fail'.wanted)
              /\ emitted' = SubSeq(fail'.wanted, 1, fail'.at - 1)
              /\ state' = state
       /\ pc \in {"failed", "exited"} =>
              /\ pc' = "exited"
              /\ emitted' = <<>>
              /\ sink' = sink
              /\ phys' = phys
              /\ state' = state]_vars

(* The second write of a tap that flushes two buffered keys fails: the     *)
(* modifier's Press is out, its Release and the flush are not.             *)
C18_TapCutShort ==
    /\ pc = "failed"
    /\ fail.error = "write"
    /\ fail.at = 2
    /\ Len(fail.wanted) = 4
    /\ last.from = "Decide"
    /\ last.event = KeyEvent(KEY_SPACE, Release)
    /\ emitted = <<KeyEvent(KEY_SPACE, Press)>>

(* C19: when the session has ended with an error, an Error notification    *)
(* carrying the error has been sent on state_tx.                           *)
C19_FailureNotified ==
    (pc = "exited" /\ fail.error # "") =>
        \E i \in 1..Len(notes) : notes[i] = ErrorMessage(fail.error)

(* C21: a configuration load that fails leaves the program with the        *)
(* default configuration (no rule): at startup, and in the command drain   *)
(* that takes a ReloadConfig while the file is unreadable or malformed.    *)
C21_LoadFailureGivesDefaults ==
    /\ (last.kind = "init" /\ disk.file = "bad") => current_config = <<>>
    /\ [][(/\ pc = "dispatch" /\ pc' # "dispatch"
           /\ disk.file = "bad"
           /\ \E i \in 1..Len(cmds) :
                  /\ cmds[i] = "ReloadConfig"
                  /\ \A j \in 1..i : cmds[j] # "Stop")
          => current_config' = <<>>]_vars

(* C22: KeyBuffer::clear leaves the buffer empty whatever it held; a clear *)
(* of the cleared buffer leaves it the same; and the cleared buffer        *)
(* accepts the append of every code.                                       *)
C22_ClearEmptiesAndIsIdempotent ==
    kbLast.op = "clear" =>
        /\ kb = <<>>
        /\ KeyBuffer_clear(kb) = kb
        /\ KeyBuffer_clear(KeyBuffer_clear(kbLast.before))
              = KeyBuffer_clear(kbLast.before)
        /\ \A code \in 1..KBCodes :
               KeyBuffer_append(kb, code) = [buffer |-> <<code>>, ret |-> TRUE]

(* A full buffer is cleared. *)
C22_FullBufferCleared ==
    /\ kbLast.op = "clear"
    /\ Len(kbLast.before) = MAX_BUFFER
    /\ kb = <<>>

(* C23: the session starts in Idle, and the state changes only from Idle   *)
(* to Decide on a Press of the modifier, from Decide to Idle on the        *)
(* Release of the modifier, from Decide to Shift on the deadline or on the *)
(* Release of a buffered code, and from Shift to Idle on the Release of    *)
(* the modifier.                                                           *)
C23_OnlyFourTransitions ==
    /\ state = "Idle"
    /\ [][state' # state =>
            \/ /\ state = "Idle" /\ state' = "Decide"
               /\ last'.event = KeyEvent(KEY_SPACE, Press)
            \/ /\ state = "Decide" /\ state' = "Idle"
               /\ last'.event = KeyEvent(KEY_SPACE, Release)
            \/ /\ state = "Decide" /\ state' = "Shift"
               /\ \/ last'.kind = "timeout"
                  \/ /\ last'.kind = "event"
                     /\ last'.event.type = "KEY"
                     /\ last'.event.value = Release
                     /\ \E i \in 1..Len(buffer) : buffer[i] = last'.event.code
            \/ /\ state = "Shift" /\ state' = "Idle"
               /\ last'.event = KeyEvent(KEY_SPACE, Release)]_vars

(* The machine is back in Idle from Shift, and the modifier's Release has  *)
(* released a tracked key.                                                 *)
C23_ShiftLeftForIdle ==
    /\ state = "Idle" /\ pc = "dispatch"
    /\ last.from = "Shift"
    /\ last.event = KeyEvent(KEY_SPACE, Release)
    /\ emitted # <<>>

(* C24: in Decide, the Release of a code other than the modifier that is   *)
(* not in the buffer is written at once as it came, code and value, with   *)
(* no rule applied; the machine stays in Decide, and the buffer and the    *)
(* time read off the Decide clock stay as they were.                       *)
C24_UnbufferedReleasePassesThrough ==
    [][(/\ last'.kind = "event" /\ last'.from = "Decide"
        /\ last'.event.type = "KEY"
        /\ last'.event.value = Release
        /\ last'.event.code # KEY_SPACE
        /\ \A i \in 1..Len(last'.buffer) :
               last'.buffer[i] # last'.event.code)
       => /\ emitted' = <<last'.event>>
          /\ state' = "Decide" /\ pc' = "loop"
          /\ buffer' = last'.buffer
          /\ elapsed' = elapsed]_vars

(* Key 30, down before the modifier and with a rule of its own, comes up   *)
(* in Decide while key 31 is buffered and half the window is gone.         *)
C24_RuleNotAppliedToRelease ==
    /\ last.kind = "event" /\ last.from = "Decide"
    /\ last.event = KeyEvent(30, Release)
    /\ current_config = <<RuleRemap>>
    /\ buffer = <<31>>
    /\ elapsed = TickMs
    /\ emitted = <<KeyEvent(30, Release)>>
    /\ state = "Decide"

(* C25: a step of Decide that reaches no outcome (the machine is still in  *)
(* Decide after it) writes no key Press: what it writes is the non-key     *)
(* event it read, or the Release it read of a code that is not in the      *)
(* buffer.                                                                 *)
C25_NoPressBeforeOutcome ==
    (last.from = "Decide" /\ state = "Decide" /\ pc = "loop") =>
        \A i \in 1..Len(emitted) :
            /\ emitted[i] = last.event
            /\ \/ emitted[i].type # "KEY"
               \/ /\ emitted[i].value = Release
                  /\ \A j \in 1..Len(last.buffer) :
                         last.buffer[j] # emitted[i].code

(* The second key pressed within the window is buffered, nothing written. *)
C25_SecondPressWithheld ==
    /\ last.kind = "event" /\ last.from = "Decide"
    /\ last.event = KeyEvent(31, Press)
    /\ state = "Decide" /\ pc = "loop"
    /\ buffer = <<30, 31>>
    /\ emitted = <<>>

(* C26: in Shift, a Press or a Repeat of the modifier is swallowed: the    *)
(* step that reads one writes nothing and leaves state and buffer as they  *)
(* were; and on the buffer and rule list of every state in Shift the       *)
(* handler answers both events so.                                         *)
C26_ShiftSwallowsModifier ==
    /\ (/\ last.kind = "event" /\ last.from = "Shift"
        /\ last.event.type = "KEY"
        /\ last.event.code = KEY_SPACE
        /\ last.event.value # Release)
       => /\ emitted = <<>>
          /\ state = "Shift" /\ pc = "loop"
          /\ buffer = last.buffer
    /\ state = "Shift" =>
          \A v \in {Press, Repeat} :
              run_shift_state(KeyEvent(KEY_SPACE, v), buffer, current_config)
                  = [out |-> <<>>, buffer |-> buffer, ret |-> ""]

(* The held modifier repeats in Shift while a remapped key is tracked. *)
C26_ModifierRepeatSwallowed ==
    /\ last.kind = "event" /\ last.from = "Shift"
    /\ last.event = KeyEvent(KEY_SPACE, Repeat)
    /\ buffer = <<30>>
    /\ emitted = <<>>
    /\ state = "Shift"

(* C27: in Shift, a key event of another code than the modifier is written *)
(* as the mapping table resolves it, and the machine stays in Shift; the   *)
(* buffer gains the code on the Press of a code whose effective code       *)
(* differs from it (if it does not hold it yet), loses it on the Release   *)
(* of such a code, and otherwise stays as it was.                          *)
C27_ShiftTracksRealRemaps ==
    (/\ last.kind = "event" /\ last.from = "Shift"
     /\ last.event.type = "KEY"
     /\ last.event.code # KEY_SPACE)
    => LET code == last.event.code
           value == last.event.value
           r == RuleOf(current_config, code)
           remap == r[2] % U16 # 0 /\ r[2] % U16 # code
           held == \E i \in 1..Len(last.buffer) : last.buffer[i] = code
       IN  /\ emitted = Resolved(code, value, current_config)
           /\ state = "Shift" /\ pc = "loop"
           /\ buffer = IF remap /\ value = Press /\ ~held
                       THEN Append(last.buffer, code)
                       ELSE IF remap /\ value = Release
                       THEN SelectSeq(last.buffer, LAMBDA c : c # code)
                       ELSE last.buffer

(* With key 30 remapped and tracked, the Press of key 31, whose rule sets  *)
(* only an extended code, is written as two Presses and is not tracked.    *)
C27_ExtendedOnlyNotTracked ==
    /\ last.kind = "event" /\ last.from = "Shift"
    /\ last.event = KeyEvent(31, Press)
    /\ current_config = <<RuleBoth, RuleExtOnly>>
    /\ emitted = <<KeyEvent(110, Press), KeyEvent(31, Press)>>
    /\ last.buffer = <<30>>
    /\ buffer = <<30>>

(* C28: when a key comes up that was pressed in Shift and resolved to its  *)
(* own code, the step that reads its Release writes a Release of every     *)
(* code that was written as Press for it, the extended code of its rule    *)
(* included, whatever state reads the Release.                             *)
C28_UntrackedKeyRoundTrips ==
    [][(/\ last'.kind = "event"
        /\ last'.event.type = "KEY"
        /\ last'.event.value = Release
        /\ last'.event.code \in shiftKeys
        /\ last'.event.code \notin shiftKeys')
       => LET want == Resolved(last'.event.code, Release, current_config)
          IN  \A i \in 1..Len(want) :
                  \E j \in 1..Len(emitted') : emitted'[j] = want[i]]_vars

(* The session with the clock advancing: a Decide handler that is running  *)
(* gets to its next deadline check (select returns after at most the       *)
(* remaining time, main.rs:174-177).                                       *)
SpecLive == Spec /\ WF_vars(DecideTick) /\ WF_vars(DecideTimeout)

InDecide == pc = "loop" /\ state = "Decide"

(* C29: a running Decide handler always returns: no step inside Decide     *)
(* changes the time measured since entry except the clock itself, which    *)
(* only adds to it; once 200 ms are measured the next step is the return   *)
(* to Shift and no event is read before it; and with the clock advancing   *)
(* every Decide is left, whatever events arrive or fail to arrive.         *)
C29_DecideAlwaysEnds ==
    /\ [][/\ (InDecide /\ InDecide')
             => /\ elapsed' >= elapsed
                /\ (last'.kind = "event" => elapsed' = elapsed)
          /\ (InDecide /\ elapsed >= DECIDE_TIMEOUT_MS)
             => (last'.kind = "timeout" /\ state' = "Shift")]_vars
    /\ [](InDecide => elapsed <= DECIDE_TIMEOUT_MS + TickMs)
    /\ (InDecide ~> ~InDecide)

(* The deadline ended a Decide in which events had been read and buffered. *)
C29_DeadlineAfterEvents ==
    /\ last.kind = "timeout" /\ state = "Shift"
    /\ elapsed >= DECIDE_TIMEOUT_MS
    /\ Len(buffer) >= 2

(* C30: while the machine is in Shift, the effective code of every code in *)
(* the buffer is down at the virtual device: its mapped Press was written  *)
(* and no Release of it since.                                             *)
C30_BufferedCodesArePressed ==
    state = "Shift" =>
        \A i \in 1..Len(buffer) :
            sink[Effective(buffer[i], current_config)] = "down"

(* C31: when the Release of a key is read in Shift and the Press of that   *)
(* key was forwarded in Idle under its own code, the step writes a Release *)
(* of that same code.                                                      *)
C31_IdlePressReleasedInShift ==
    [][(/\ last'.kind = "event" /\ last'.from = "Shift"
        /\ last'.event.type = "KEY" /\ last'.event.value = Release
        /\ last'.event.code # KEY_SPACE
        /\ heldAs[last'.event.code].from = "Idle")
       => \E j \in 1..Len(emitted') :
              emitted'[j] = KeyEvent(last'.event.code, Release)]_vars

(* C32: whatever commands are drained between two handlers, the codes      *)
(* written as mapped Press for a key (at the deadline or in Shift) are the *)
(* codes released for it: the step that reads the Release of the modifier  *)
(* in Shift releases every code still down for a buffered key, and the     *)
(* step that reads the key's own Release releases every code still down    *)
(* for it.                                                                 *)
C32_ReloadKeepsPressAndReleasePaired ==
    [][(/\ last'.kind = "event" /\ last'.event.type = "KEY"
        /\ last'.event.value = Release)
       => \A k \in Keys :
             (/\ heldAs[k].from \in {"Decide", "Shift"}
              /\ \/ last'.event.code = k
                 \/ /\ last'.event.code = KEY_SPACE /\ last'.from = "Shift"
                    /\ Contains(buffer, k))
             => heldAs[k].codes \subseteq ReleasedBy(emitted')]_vars

(* C33: when a Stop command has ended the session, no code is down at the  *)
(* virtual device: every Press the session wrote has been answered by a    *)
(* Release.                                                                *)
C33_StopLeavesNothingPressed ==
    pc = "stopped" => \A c \in SinkCodes : sink[c] # "down"

(* C34 as claimed: whenever the machine is in Idle the buffer is empty.    *)
C34_IdleBufferEmpty ==
    state = "Idle" => buffer = <<>>

(* C34, amended: the buffer is empty at session start and after every      *)
(* return from Shift to Idle; the tap outcome returns to Idle with the     *)
(* buffer as it was, the flushed codes still in it; no step in Idle        *)
(* changes the buffer; and the next entry into Decide empties it.          *)
C34_BufferClearedOnShiftExitAndDecideEntry ==
    /\ (state = "Idle" /\ buffer = <<>>)
    /\ [][/\ (state = "Shift" /\ state' = "Idle") => buffer' = <<>>
          /\ (state = "Decide" /\ state' = "Idle") => buffer' = buffer
          /\ (state = "Idle" /\ pc = "loop") => buffer' = buffer
          /\ (state = "Decide" /\ pc = "dispatch" /\ pc' = "loop")
                => buffer' = <<>>]_vars

(* The Idle handler has forwarded a key event after a tap, with the two    *)
(* codes the tap flushed still in the buffer.                              *)
C34_BufferKeptAfterTap ==
    /\ state = "Idle" /\ pc = "loop"
    /\ IdleKeyStep
    /\ Len(buffer) = 2

(* The session while the observer may go away: the receiver of state_tx is *)
(* dropped when the user interface ends.                                   *)
ObserverGone ==
    /\ observer = "up"
    /\ observer' = "gone"
    /\ UNCHANGED <<cmds, drained, disk, fail>>
    /\ UNCHANGED <<session, idleLog, call, keyBuffer, stateMachine, keyboard>>

NextObs == ObserverGone \/ Next

SpecObs == Init /\ [][NextObs]_vars

(* The StateChanged notifications among `ns`. *)
StateChanges(ns) == SelectSeq(ns, LAMBDA n : n.kind = "StateChanged")

(* C35: StateChanged(Idle) is the one notification of the session start;   *)
(* a step that changes the state sends exactly one StateChanged, for the   *)
(* state entered, as its last notification; a step that keeps the state    *)
(* sends none; and with the observer gone every event still has the        *)
(* outcome the handler of the state gives it.                              *)
C35_StateChangedMirrorsState ==
    /\ (state = "Idle" /\ notes = <<StateChanged("Idle")>>)
    /\ [][/\ state' # state
             => /\ StateChanges(notes') = <<StateChanged(state')>>
                /\ notes'[Len(notes')] = StateChanged(state')
          /\ (state' = state /\ observer' = observer)
             => StateChanges(notes') = <<>>
          /\ (last'.kind = "event" /\ observer' = observer)
             => LET r == run_handler(state, last'.event, buffer,
                                     current_config)
                IN  /\ emitted' = r.out
                    /\ buffer' = r.buffer
                    /\ state' = IF r.ret = "" THEN state ELSE r.ret
                    /\ pc' = IF r.ret = "" THEN "loop" ELSE "dispatch"]_vars

(* With the observer gone, a combo has taken the machine to Shift and the  *)
(* handler has called send for KeyPressed and for StateChanged(Shift).     *)
C35_ShiftEnteredWithoutObserver ==
    /\ observer = "gone"
    /\ ComboStep
    /\ state = "Shift" /\ pc = "dispatch"
    /\ notes = <<KeyPressed(last.event.code), StateChanged("Shift")>>

(* An event of the modifier code among the written events `out`. *)
WritesModifier(out) ==
    \E j \in 1..Len(out) : out[j].type = "KEY" /\ out[j].code = KEY_SPACE

(* C36: with no rule naming the modifier code as replacement or extended   *)
(* code, no step of Decide or Shift other than the tap writes an event of  *)
(* the modifier code, whatever its value; and a Press of the modifier code *)
(* is written by the tap alone, followed at once by its Release.           *)
C36_ModifierSilentAsLayerShift ==
    [][/\ (/\ \A i \in 1..Len(current_config) :
                 /\ current_config[i][2] % U16 # KEY_SPACE
                 /\ current_config[i][3] % U16 # KEY_SPACE
           /\ last'.from \in {"Decide", "Shift"}
           /\ last'.kind \in {"event", "timeout"}
           /\ ~(last'.from = "Decide"
                /\ last'.event = KeyEvent(KEY_SPACE, Release)))
          => ~WritesModifier(emitted')
       /\ (\E j \in 1..Len(emitted') :
               emitted'[j] = KeyEvent(KEY_SPACE, Press))
          => /\ last'.from = "Decide"
             /\ last'.event = KeyEvent(KEY_SPACE, Release)
             /\ SubSeq(emitted', 1, 2) = <<KeyEvent(KEY_SPACE, Press),
                                          KeyEvent(KEY_SPACE, Release)>>]_vars

(* The held modifier repeats in Decide while a key is buffered, and        *)
(* nothing is written for it.                                              *)
C36_ModifierRepeatInDecide ==
    /\ DecideKeyStep
    /\ last.event = KeyEvent(KEY_SPACE, Repeat)
    /\ state = "Decide"
    /\ buffer # <<>>
    /\ emitted = <<>>

====
